---------------------------- MODULE Spec2Model ----------------------------
(***************************************************************************)
(* A model of scrape_ibps_jobs.py: the fetcher (get_page_content), the     *)
(* per-element extractor (extract_job_info) and the scraping run           *)
(* (scrape_ibps_jobs), over a small model of the parts of BeautifulSoup    *)
(* the script calls (find, find_all, find_parent, get_text, tag equality). *)
(*                                                                         *)
(* Strings are TLA+ strings; a character is a string of length one.  A     *)
(* parsed document is the sequence of its nodes in document order, each    *)
(* with its depth in the tree; node 1 is the document itself.  An absent   *)
(* attribute is <<>>, a present one <<value>>; Python's None is 0 for a    *)
(* node, <<>> for a document and <<>> for a record.                        *)
(***************************************************************************)
EXTENDS Integers, Sequences, FiniteSets, TLC

VARIABLES
    verify_ssl,         \* argument of scrape_ibps_jobs / get_page_content
    CERTIFI_AVAILABLE,  \* module-level flag set by the import at lines 16-21
    page,               \* the document the server holds for the url
    pc,                 \* position of the run
    requests,           \* every requests.get issued: its verify=, its outcome
    soup,               \* result of get_page_content: a document, or <<>>
    job_container,      \* node chosen as the container (1 is soup itself)
    job_elements,       \* candidate listing elements (node numbers)
    link_scan,          \* whether the hyperlink fallback has run
    all_links,          \* the links of the fallback scan
    link_i,             \* position of the fallback loop in all_links
    raising,            \* elements on which a library call has raised
    elem_i,             \* position of the extraction loop in job_elements
    job_info,           \* result of the last extract_job_info call
    jobs,               \* records kept so far
    csv_file            \* rows of the output file; <<>> while not written

vars == <<verify_ssl, CERTIFI_AVAILABLE, page, pc, requests, soup,
          job_container, job_elements, link_scan, all_links, link_i,
          raising, elem_i, job_info, jobs, csv_file>>

\* listings per page of the model
MaxListings == 2
\* extract_job_info calls of one run in which a library call raises
MaxRaising == 1

---------------------------------------------------------------------------
(* Python string operations                                                *)

Char(s, i) == SubSeq(s, i, i)

\* str.startswith
StartsWith(s, p) == Len(p) <= Len(s) /\ SubSeq(s, 1, Len(p)) = p

\* the `in` operator on strings
Contains(s, sub) ==
    \E i \in 1..(Len(s) - Len(sub) + 1) : SubSeq(s, i, i + Len(sub) - 1) = sub

\* one character of str.lower
LowerOf(c) ==
    CASE c = "A" -> "a" [] c = "B" -> "b" [] c = "C" -> "c" [] c = "D" -> "d"
      [] c = "E" -> "e" [] c = "F" -> "f" [] c = "G" -> "g" [] c = "H" -> "h"
      [] c = "I" -> "i" [] c = "J" -> "j" [] c = "K" -> "k" [] c = "L" -> "l"
      [] c = "M" -> "m" [] c = "N" -> "n" [] c = "O" -> "o" [] c = "P" -> "p"
      [] c = "Q" -> "q" [] c = "R" -> "r" [] c = "S" -> "s" [] c = "T" -> "t"
      [] c = "U" -> "u" [] c = "V" -> "v" [] c = "W" -> "w" [] c = "X" -> "x"
      [] c = "Y" -> "y" [] c = "Z" -> "z"
      [] OTHER -> c

RECURSIVE Lower(_)
\* str.lower
Lower(s) == IF s = "" THEN "" ELSE LowerOf(Char(s, 1)) \o Lower(Tail(s))

RECURSIVE LStrip(_)
LStrip(s) == IF s # "" /\ Char(s, 1) = " " THEN LStrip(Tail(s)) ELSE s

RECURSIVE RStrip(_)
RStrip(s) ==
    IF s # "" /\ Char(s, Len(s)) = " " THEN RStrip(SubSeq(s, 1, Len(s) - 1))
    ELSE s

\* str.strip; the blank is the whitespace of the model
Strip(s) == RStrip(LStrip(s))

\* re.compile(alternatives, re.I).search(s), for an alternation of
\* lower-case literals
SearchAny(alts, s) ==
    LET lowered == Lower(s) IN \E a \in alts : Contains(lowered, a)

Digits == {"0", "1", "2", "3", "4", "5", "6", "7", "8", "9"}

\* re.compile(r'\d{2}[/-]\d{2}[/-]\d{2,4}', re.I).search(s)
SearchDate(s) ==
    \E i \in 1..(Len(s) - 7) :
        /\ \A k \in {0, 1, 3, 4, 6, 7} : Char(s, i + k) \in Digits
        /\ \A k \in {2, 5} : Char(s, i + k) \in {"/", "-"}

---------------------------------------------------------------------------
(* BeautifulSoup                                                           *)

Min(S) == CHOOSE x \in S : \A y \in S : x <= y

RECURSIVE SortedSeq(_)
\* the members of a set of node numbers in document order
SortedSeq(S) ==
    IF S = {} THEN <<>> ELSE <<Min(S)>> \o SortedSeq(S \ {Min(S)})

\* the descendants of node e: the nodes after e up to the next node that is
\* not deeper than e
Descendants(doc, e) ==
    LET after == {k \in (e + 1)..Len(doc) : doc[k].depth <= doc[e].depth}
    IN  IF after = {} THEN (e + 1)..Len(doc) ELSE (e + 1)..(Min(after) - 1)

\* the ancestors of node e
Ancestors(doc, e) ==
    {j \in 1..(e - 1) : e \in Descendants(doc, j)}

IsTag(doc, i) == doc[i].name # "#text"

\* the tags called `name`
Named(doc, name) == {i \in 1..Len(doc) : doc[i].name = name}

\* name with class_=re.compile(alternatives, re.I)
NamedClass(doc, name, alts) ==
    {i \in Named(doc, name) :
        doc[i].class # <<>> /\ SearchAny(alts, doc[i].class[1])}

\* name with id=re.compile(alternatives, re.I)
NamedId(doc, name, alts) ==
    {i \in Named(doc, name) :
        doc[i].id # <<>> /\ SearchAny(alts, doc[i].id[1])}

\* whether the class attribute, split on blanks, has token c
HasClassToken(cls, c) ==
    \/ cls = c
    \/ StartsWith(cls, c \o " ")
    \/ Contains(cls, " " \o c \o " ")
    \/ (Len(cls) > Len(c) /\ SubSeq(cls, Len(cls) - Len(c), Len(cls)) = " " \o c)

\* name with class_='c'
NamedClassIs(doc, name, c) ==
    {i \in Named(doc, name) :
        doc[i].class # <<>> /\ HasClassToken(doc[i].class[1], c)}

\* name with href=True
NamedHref(doc, name) == {i \in Named(doc, name) : doc[i].href # <<>>}

\* text=re.compile(alternatives, re.I)
TextAny(doc, alts) ==
    {i \in 1..Len(doc) : ~IsTag(doc, i) /\ SearchAny(alts, doc[i].string)}

\* text=re.compile(date pattern)
TextDate(doc) ==
    {i \in 1..Len(doc) : ~IsTag(doc, i) /\ SearchDate(doc[i].string)}

\* e.find(...): the first descendant among the matches, or None
Find(doc, e, matches) ==
    LET found == matches \cap Descendants(doc, e)
    IN  IF found = {} THEN 0 ELSE Min(found)

\* e.find_all(...): the descendants among the matches, in document order
FindAll(doc, e, matches) == SortedSeq(matches \cap Descendants(doc, e))

\* e.find_parent(names): the nearest ancestor with one of the names, or None
FindParent(doc, e, names) ==
    LET up == {j \in Ancestors(doc, e) : doc[j].name \in names}
    IN  IF up = {} THEN 0 ELSE CHOOSE j \in up : \A k \in up : k <= j

RECURSIVE JoinStripped(_, _)
JoinStripped(doc, idx) ==
    IF idx = <<>> THEN ""
    ELSE Strip(doc[Head(idx)].string) \o JoinStripped(doc, Tail(idx))

\* e.get_text(strip=True): every string below e stripped, then concatenated
GetTextStrip(doc, e) ==
    JoinStripped(doc, SortedSeq({j \in Descendants(doc, e) : ~IsTag(doc, j)}))

\* truth value of a find result: None is false, a Tag is true, a string is
\* true unless empty
Truthy(doc, i) == i # 0 /\ (IsTag(doc, i) \/ doc[i].string # "")

\* Python's `a or b`
Or(doc, a, b) == IF Truthy(doc, a) THEN a ELSE b

\* Tag.__eq__: same name, same attributes, same contents recursively
SameMarkup(doc, a, b) ==
    LET da == SortedSeq(Descendants(doc, a))
        db == SortedSeq(Descendants(doc, b))
        same(i, j) ==
            /\ doc[i].name = doc[j].name
            /\ doc[i].class = doc[j].class
            /\ doc[i].id = doc[j].id
            /\ doc[i].href = doc[j].href
            /\ doc[i].datetime = doc[j].datetime
            /\ doc[i].string = doc[j].string
    IN  /\ same(a, b)
        /\ Len(da) = Len(db)
        /\ \A k \in 1..Len(da) :
              /\ same(da[k], db[k])
              /\ doc[da[k]].depth - doc[a].depth = doc[db[k]].depth - doc[b].depth

\* `x in elements` for a list of tags
InList(doc, x, elements) ==
    \E k \in 1..Len(elements) : SameMarkup(doc, x, elements[k])

---------------------------------------------------------------------------
(* extract_job_info                                                        *)

TitlePattern == {"title", "heading", "name"}
LocationPattern == {"location", "place", "city"}
LocationText == {"location", "city", "place"}
DatePattern == {"date", "published", "post"}
base_url == "https://www.ibps.in"
NotSpecified == "Not specified"
NotAvailable == "Not available"

\* title_elem: the first of h4, h3, h2, a.title, span.title that is found
TitleElem(doc, e) ==
    Or(doc, Find(doc, e, Named(doc, "h4")),
    Or(doc, Find(doc, e, Named(doc, "h3")),
    Or(doc, Find(doc, e, Named(doc, "h2")),
    Or(doc, Find(doc, e, NamedClass(doc, "a", TitlePattern)),
            Find(doc, e, NamedClass(doc, "span", TitlePattern))))))

\* job_data['Job Title'] as <<title>>, or <<>> where the function returns None
JobTitle(doc, e) ==
    LET title_elem == TitleElem(doc, e)
        link_elem == Find(doc, e, Named(doc, "a"))
    IN  IF Truthy(doc, title_elem) THEN <<GetTextStrip(doc, title_elem)>>
        ELSE IF Truthy(doc, link_elem) THEN <<GetTextStrip(doc, link_elem)>>
        ELSE <<>>

\* LocationElem without the search of the text nodes
LocationElemTagsOnly(doc, e) ==
    Or(doc, Find(doc, e, NamedClass(doc, "span", LocationPattern)),
            Find(doc, e, NamedClass(doc, "div", LocationPattern)))

LocationElem(doc, e) ==
    Or(doc, Find(doc, e, NamedClass(doc, "span", LocationPattern)),
    Or(doc, Find(doc, e, NamedClass(doc, "div", LocationPattern)),
            Find(doc, e, TextAny(doc, LocationText))))

\* job_data['Location']
JobLocation(doc, e) ==
    LET location_elem == LocationElem(doc, e)
    IN  IF Truthy(doc, location_elem)
        THEN IF ~IsTag(doc, location_elem)
             THEN Strip(doc[location_elem].string)
             ELSE GetTextStrip(doc, location_elem)
        ELSE NotSpecified

DateElem(doc, e) ==
    Or(doc, Find(doc, e, NamedClass(doc, "span", DatePattern)),
    Or(doc, Find(doc, e, NamedClass(doc, "div", DatePattern)),
    Or(doc, Find(doc, e, Named(doc, "time")),
            Find(doc, e, TextDate(doc)))))

\* job_data['Post/Publish Date']
JobDate(doc, e) ==
    LET date_elem == DateElem(doc, e)
    IN  IF Truthy(doc, date_elem)
        THEN IF ~IsTag(doc, date_elem)
             THEN Strip(doc[date_elem].string)
             ELSE IF doc[date_elem].datetime # <<>>
                     /\ doc[date_elem].datetime[1] # ""
                  THEN doc[date_elem].datetime[1]
                  ELSE GetTextStrip(doc, date_elem)
        ELSE NotSpecified

\* the conversion of an href to the link of the record
AbsoluteLink(link) ==
    IF StartsWith(link, "/") THEN base_url \o link
    ELSE IF StartsWith(link, "http") THEN link
    ELSE base_url \o "/" \o link

\* job_data['Link to Detailed Job Page']
JobLink(doc, e) ==
    LET link_elem == Find(doc, e, NamedHref(doc, "a"))
    IN  IF Truthy(doc, link_elem) THEN AbsoluteLink(doc[link_elem].href[1])
        ELSE NotAvailable

\* extract_job_info(job_element) on an element no library call raises on:
\* <<record>>, or <<>> for None.  The fields title, location, date and link
\* are the columns 'Job Title', 'Location', 'Post/Publish Date' and
\* 'Link to Detailed Job Page'.
ExtractFields(doc, e) ==
    LET title == JobTitle(doc, e)
    IN  IF title = <<>> THEN <<>>
        ELSE <<[title |-> title[1],
                location |-> JobLocation(doc, e),
                date |-> JobDate(doc, e),
                link |-> JobLink(doc, e)]>>

\* extract_job_info: the except clause turns any exception into None
extract_job_info(doc, e, raised) ==
    IF raised THEN <<>> ELSE ExtractFields(doc, e)

---------------------------------------------------------------------------
(* scrape_ibps_jobs                                                        *)

ContainerPattern == {"recruit", "job", "vacancy", "opening"}
ListingPattern == {"recruitment", "job", "vacancy", "opening", "listing"}
LinkKeywords == {"recruitment", "job", "vacancy", "notification", "cwe", "exam"}
exclude_keywords ==
    {"view all", "all", "recruitment exams", "personnel selection services"}
MaxTitleLen == 100
ParentNames == {"div", "li", "article", "tr"}

possible_containers(doc) ==
    << Find(doc, 1, NamedClass(doc, "div", ContainerPattern)),
       Find(doc, 1, NamedClass(doc, "section", ContainerPattern)),
       Find(doc, 1, NamedClass(doc, "ul", ContainerPattern)),
       Find(doc, 1, NamedId(doc, "div", ContainerPattern)),
       Find(doc, 1, NamedClassIs(doc, "div", "other_recruitments")),
       Find(doc, 1, NamedClassIs(doc, "div", "recruitment-list")) >>

\* the loop at lines 184-187, then the fallback to soup at lines 190-193
ChooseContainer(doc) ==
    LET found == {k \in 1..Len(possible_containers(doc)) :
                     Truthy(doc, possible_containers(doc)[k])}
    IN  IF found = {} THEN 1 ELSE possible_containers(doc)[Min(found)]

job_selectors(doc, c) ==
    << FindAll(doc, c, NamedClass(doc, "div", ListingPattern)),
       FindAll(doc, c, NamedClass(doc, "li", ListingPattern)),
       FindAll(doc, c, NamedClass(doc, "article", ListingPattern)),
       FindAll(doc, c, NamedClassIs(doc, "div", "recruitment")),
       FindAll(doc, c, NamedClassIs(doc, "div", "job-item")) >>

\* ChooseElements with the results of all selectors merged
ChooseElementsMerged(doc, c) ==
    SortedSeq(UNION {{job_selectors(doc, c)[k][n] :
                         n \in 1..Len(job_selectors(doc, c)[k])} :
                     k \in 1..Len(job_selectors(doc, c))})

\* the loop at lines 207-211: the first selector whose result is not empty
ChooseElements(doc, c) ==
    LET found == {k \in 1..Len(job_selectors(doc, c)) :
                     job_selectors(doc, c)[k] # <<>>}
    IN  IF found = {} THEN <<>> ELSE job_selectors(doc, c)[Min(found)]

\* the condition at line 221
LinkHasKeyword(doc, link) ==
    LET href == Lower(doc[link].href[1])
        text == Lower(GetTextStrip(doc, link))
    IN  \E keyword \in LinkKeywords :
            Contains(href, keyword) \/ Contains(text, keyword)

\* the body of the loop at lines 218-225 for one link
AddLinkParent(doc, link, elements) ==
    LET parent == FindParent(doc, link, ParentNames)
    IN  IF /\ LinkHasKeyword(doc, link)
           /\ Truthy(doc, parent)
           /\ ~InList(doc, parent, elements)
        THEN Append(elements, parent)
        ELSE elements

\* KeepJob comparing the title as written, without lower()
KeepJobCaseSensitive(info) ==
    /\ info # <<>>
    /\ info[1].title # ""
    /\ ~\E keyword \in exclude_keywords :
            Contains(Strip(info[1].title), keyword)
    /\ Len(info[1].title) < MaxTitleLen

\* KeepJob with <= for < in the length test
KeepJobInclusive(info) ==
    /\ info # <<>>
    /\ info[1].title # ""
    /\ LET title_lower == Strip(Lower(info[1].title))
       IN  ~\E keyword \in exclude_keywords : Contains(title_lower, keyword)
    /\ Len(info[1].title) <= MaxTitleLen

\* the conditions at lines 234-239 under which a record is kept
KeepJob(info) ==
    /\ info # <<>>
    /\ info[1].title # ""
    /\ LET title_lower == Strip(Lower(info[1].title))
       IN  ~\E keyword \in exclude_keywords : Contains(title_lower, keyword)
    /\ Len(info[1].title) < MaxTitleLen

RECURSIVE DropDuplicateRows(_)
\* DropDuplicates without subset=: only rows equal in every column are dropped
DropDuplicateRows(rows) ==
    IF rows = <<>> THEN <<>>
    ELSE LET init == DropDuplicateRows(SubSeq(rows, 1, Len(rows) - 1))
             last == rows[Len(rows)]
         IN  IF \E k \in 1..Len(init) : init[k] = last
             THEN init
             ELSE Append(init, last)

RECURSIVE DropDuplicates(_)
\* df.drop_duplicates(subset=[title, link], keep='first')
DropDuplicates(rows) ==
    IF rows = <<>> THEN <<>>
    ELSE LET init == DropDuplicates(SubSeq(rows, 1, Len(rows) - 1))
             last == rows[Len(rows)]
         IN  IF \E k \in 1..Len(init) :
                    init[k].title = last.title /\ init[k].link = last.link
             THEN init
             ELSE Append(init, last)

\* where the run goes once job_elements is final
AfterElements(elements) == IF elements = <<>> THEN "finish" ELSE "extract"

---------------------------------------------------------------------------
(* get_page_content                                                        *)

\* what a requests.get followed by raise_for_status ends in: a response, an
\* SSLError, or any other RequestException
Outcomes == {"ok", "SSLError", "RequestException"}

\* the verify= argument of the first request (lines 50-54)
FirstVerify ==
    IF CERTIFI_AVAILABLE /\ verify_ssl THEN "certifi.where()"
    ELSE IF verify_ssl THEN "True" ELSE "False"

\* RetryAfter without the test of verify_ssl
RetryAfterAnySSLError(outcome) == outcome = "SSLError"

\* whether the handler of the first request's exception retries (lines 57-59)
RetryAfter(outcome) == outcome = "SSLError" /\ verify_ssl

\* lines 48-61 and 69-74: the first request and the handling of its outcome
FirstRequest ==
    /\ pc = "request"
    /\ \E outcome \in Outcomes :
          /\ requests' = Append(requests, [verify |-> FirstVerify,
                                           outcome |-> outcome])
          /\ IF outcome = "ok" THEN soup' = page /\ pc' = "returned"
             ELSE IF RetryAfter(outcome) THEN soup' = soup /\ pc' = "retry"
             ELSE soup' = <<>> /\ pc' = "returned"
    /\ UNCHANGED <<verify_ssl, CERTIFI_AVAILABLE, page, job_container,
                   job_elements, link_scan, all_links, link_i, raising,
                   elem_i, job_info, jobs, csv_file>>

\* lines 62-68: the request without verification
RetryRequest ==
    /\ pc = "retry"
    /\ \E outcome \in Outcomes :
          /\ requests' = Append(requests, [verify |-> "False",
                                           outcome |-> outcome])
          /\ soup' = IF outcome = "ok" THEN page ELSE <<>>
    /\ pc' = "returned"
    /\ UNCHANGED <<verify_ssl, CERTIFI_AVAILABLE, page, job_container,
                   job_elements, link_scan, all_links, link_i, raising,
                   elem_i, job_info, jobs, csv_file>>

---------------------------------------------------------------------------
(* the run of scrape_ibps_jobs                                             *)

\* lines 169-171: no document, the run ends
FetchFailed ==
    /\ pc = "returned"
    /\ soup = <<>>
    /\ pc' = "done"
    /\ UNCHANGED <<verify_ssl, CERTIFI_AVAILABLE, page, requests, soup,
                   job_container, job_elements, link_scan, all_links, link_i,
                   raising, elem_i, job_info, jobs, csv_file>>

\* lines 173-217: the container, the listing selectors and, when they find
\* nothing, the links of the fallback scan
SelectElements ==
    /\ pc = "returned"
    /\ soup # <<>>
    /\ LET container == ChooseContainer(soup)
           elements == ChooseElements(soup, container)
           links == FindAll(soup, container, NamedHref(soup, "a"))
       IN  /\ job_container' = container
           /\ job_elements' = elements
           /\ jobs' = <<>>
           /\ IF elements # <<>>
              THEN /\ pc' = "extract"
                   /\ UNCHANGED <<link_scan, all_links>>
              ELSE /\ link_scan' = TRUE
                   /\ all_links' = links
                   /\ pc' = IF links = <<>> THEN "finish" ELSE "links"
    /\ UNCHANGED <<verify_ssl, CERTIFI_AVAILABLE, page, requests, soup,
                   link_i, raising, elem_i, job_info, csv_file>>

\* lines 218-225: one link of the fallback scan
ScanLink ==
    /\ pc = "links"
    /\ job_elements' = AddLinkParent(soup, all_links[link_i], job_elements)
    /\ link_i' = link_i + 1
    /\ pc' = IF link_i < Len(all_links) THEN "links"
             ELSE AfterElements(job_elements')
    /\ UNCHANGED <<verify_ssl, CERTIFI_AVAILABLE, page, requests, soup,
                   job_container, link_scan, all_links, raising, elem_i,
                   job_info, jobs, csv_file>>

\* ExtractJob leaving the loop at the first element that yields no record
ExtractJobAborting ==
    /\ pc = "extract"
    /\ \E raised \in IF Cardinality(raising) < MaxRaising THEN BOOLEAN
                     ELSE {FALSE} :
          LET info == extract_job_info(soup, job_elements[elem_i], raised)
          IN  /\ job_info' = info
              /\ jobs' = IF KeepJob(info) THEN Append(jobs, info[1]) ELSE jobs
              /\ raising' = IF raised THEN raising \cup {job_elements[elem_i]}
                            ELSE raising
              /\ pc' = IF info # <<>> /\ elem_i < Len(job_elements)
                       THEN "extract" ELSE "finish"
    /\ elem_i' = elem_i + 1
    /\ UNCHANGED <<verify_ssl, CERTIFI_AVAILABLE, page, requests, soup,
                   job_container, job_elements, link_scan, all_links, link_i,
                   csv_file>>

\* whether a library call may raise in the next extract_job_info call
MayRaise == IF Cardinality(raising) < MaxRaising THEN BOOLEAN ELSE {FALSE}

\* lines 232-240: one candidate element
ExtractJob ==
    /\ pc = "extract"
    /\ \E raised \in MayRaise :
          LET info == extract_job_info(soup, job_elements[elem_i], raised)
          IN  /\ job_info' = info
              /\ jobs' = IF KeepJob(info) THEN Append(jobs, info[1]) ELSE jobs
              /\ raising' = IF raised THEN raising \cup {job_elements[elem_i]}
                            ELSE raising
    /\ elem_i' = elem_i + 1
    /\ pc' = IF elem_i < Len(job_elements) THEN "extract" ELSE "finish"
    /\ UNCHANGED <<verify_ssl, CERTIFI_AVAILABLE, page, requests, soup,
                   job_container, job_elements, link_scan, all_links, link_i,
                   csv_file>>

\* lines 242-252: nothing kept, the run ends without output
NoJobsFound ==
    /\ pc = "finish"
    /\ jobs = <<>>
    /\ pc' = "done"
    /\ UNCHANGED <<verify_ssl, CERTIFI_AVAILABLE, page, requests, soup,
                   job_container, job_elements, link_scan, all_links, link_i,
                   raising, elem_i, job_info, jobs, csv_file>>

\* SaveCsv without the test of jobs
SaveCsvUnguarded ==
    /\ pc = "finish"
    /\ csv_file' = <<DropDuplicates(jobs)>>
    /\ pc' = "done"
    /\ UNCHANGED <<verify_ssl, CERTIFI_AVAILABLE, page, requests, soup,
                   job_container, job_elements, link_scan, all_links, link_i,
                   raising, elem_i, job_info, jobs>>

\* lines 254-261: the frame, without duplicates, is written
SaveCsv ==
    /\ pc = "finish"
    /\ jobs # <<>>
    /\ csv_file' = <<DropDuplicates(jobs)>>
    /\ pc' = "done"
    /\ UNCHANGED <<verify_ssl, CERTIFI_AVAILABLE, page, requests, soup,
                   job_container, job_elements, link_scan, all_links, link_i,
                   raising, elem_i, job_info, jobs>>

Next ==
    \/ FirstRequest
    \/ RetryRequest
    \/ FetchFailed
    \/ SelectElements
    \/ ScanLink
    \/ ExtractJob
    \/ NoJobsFound
    \/ SaveCsv

---------------------------------------------------------------------------
(* The pages of the model                                                  *)

Node(name, class, id, href, datetime, string) ==
    [name |-> name, depth |-> 0, class |-> class, id |-> id, href |-> href,
     datetime |-> datetime, string |-> string]

Shift(nodes, d) ==
    [k \in 1..Len(nodes) |-> [nodes[k] EXCEPT !.depth = @ + d]]

\* a text node
T(string) == <<Node("#text", <<>>, <<>>, <<>>, <<>>, string)>>

\* <name class=...>children</name>
E(name, class, children) ==
    <<Node(name, class, <<>>, <<>>, <<>>, "")>> \o Shift(children, 1)

\* <a class=... href=...>children</a>
A(class, href, children) ==
    <<Node("a", class, <<>>, href, <<>>, "")>> \o Shift(children, 1)

\* the parsed document holding the given top-level nodes
Document(children) ==
    <<Node("[document]", <<>>, <<>>, <<>>, <<>>, "")>> \o Shift(children, 1)

RECURSIVE Flatten(_)
Flatten(parts) ==
    IF parts = <<>> THEN <<>> ELSE Head(parts) \o Flatten(Tail(parts))

\* the sequences of at most n members of S
SeqsUpTo(S, n) == UNION {[1..k -> S] : k \in 0..n}

RECURSIVE Repeat(_, _)
Repeat(c, n) == IF n = 0 THEN "" ELSE c \o Repeat(c, n - 1)

\* listings that differ in what the filter and the deduplication look at
PipelineListings ==
    { E("div", <<"job-item">>,
          E("h4", <<>>, T("Clerk")) \o A(<<>>, <<"/a">>, T("Apply"))),
      E("div", <<"job-item">>,
          E("h4", <<>>, T("Clerk")) \o A(<<>>, <<"/a">>, T("Apply"))
            \o E("span", <<"location">>, T("Delhi"))),
      E("div", <<"job-item">>,
          E("h4", <<>>, T(" View All ")) \o A(<<>>, <<"/b">>, T("More"))),
      E("div", <<"job-item">>, E("h4", <<>>, T("Install Guide"))),
      E("div", <<"job-item">>, E("h4", <<>>, T(Repeat("x", MaxTitleLen)))),
      E("div", <<"job-item">>, E("h4", <<>>, T(Repeat("x", MaxTitleLen - 1)))),
      E("div", <<"job-item">>, E("h4", <<>>, <<>>)),
      E("div", <<"job-item">>, E("p", <<>>, T("Results"))) }

\* pages that between them take every path of the run
BasePages ==
    { Document(<<>>),
      Document(E("div", <<"job-list">>,
          E("div", <<"job-item">>,
              E("h4", <<>>, T("Clerk")) \o A(<<>>, <<"/a">>, T("Apply"))))),
      Document(E("table", <<>>,
          E("tr", <<>>, A(<<>>, <<"/recruitment/1">>, T("Clerk"))))) }

PipelinePages ==
    BasePages \cup
    { Document(E("div", <<"job-list">>, Flatten(items))) :
        items \in SeqsUpTo(PipelineListings, MaxListings) }

\* listings that differ in what extract_job_info looks at: the title chain,
\* the location chain, the date chain and the link
TitleParts ==
    { <<>>,
      E("h4", <<>>, T(" Clerk ")),
      E("h3", <<>>, T("Officer")) \o E("h4", <<>>, T("Clerk")),
      E("h2", <<>>, T("PO")) \o E("h3", <<>>, T("Officer")),
      A(<<"job-title">>, <<>>, T("Manager")) \o E("h2", <<>>, T("PO")),
      E("span", <<"Name">>, T("Analyst"))
          \o A(<<"heading">>, <<>>, T("Manager")),
      E("span", <<"post-name">>, T("Analyst")),
      E("h4", <<>>, T("IBPS ") \o E("b", <<>>, T("Clerk"))),
      A(<<>>, <<>>, T("Apply here")) }

LocationParts ==
    { <<>>,
      E("span", <<"location">>, T("Mumbai")),
      E("div", <<"City">>, T(" Delhi ")),
      E("p", <<>>, T(" Location: Pune ")),
      E("span", <<"location">>, T("Not specified")),
      E("span", <<"place">>, <<>>) }

DateParts ==
    { <<>>,
      <<Node("time", <<>>, <<>>, <<>>, <<"2024-02-01">>, "")>>
          \o Shift(T("Feb 1"), 1),
      E("p", <<>>, T("Posted 12-05-24")) }

LinkParts ==
    { <<>>,
      A(<<>>, <<"/jobs/1">>, T("Apply")),
      A(<<>>, <<"http://x.in/j">>, T("Apply")),
      A(<<>>, <<"notice.pdf">>, T("Apply")),
      A(<<>>, <<"httpd/notes.html">>, T("Apply")),
      A(<<>>, <<"ftp://x.in/f">>, T("Apply")),
      A(<<>>, <<"">>, T("Apply")) }

ExtractPages ==
    BasePages \cup
    { Document(E("div", <<"job-list">>,
          E("div", <<"job-item">>, t \o l \o d \o k))) :
        t \in TitleParts, l \in LocationParts, d \in DateParts,
        k \in LinkParts }

\* containers and listings that differ in what the selector chains look at
SelectWrappers ==
    { <<Node("div", <<"job-list">>, <<>>, <<>>, <<>>, "")>>,
      <<Node("section", <<"Vacancies">>, <<>>, <<>>, <<>>, "")>>,
      <<Node("ul", <<"openings">>, <<>>, <<>>, <<>>, "")>>,
      <<Node("div", <<>>, <<"recruitment">>, <<>>, <<>>, "")>>,
      <<Node("div", <<>>, <<>>, <<>>, <<>>, "")>> }

SelectTrailers ==
    { <<>>,
      E("div", <<"job-board">>,
          E("div", <<"job-item">>, E("h4", <<>>, T("Officer")))) }

SelectListings ==
    { E("div", <<"job-item">>, A(<<>>, <<"/recruitment/1">>, T("Clerk"))),
      E("li", <<"listing">>, A(<<>>, <<"/recruitment/1">>, T("Clerk"))),
      E("article", <<"vacancy">>, A(<<>>, <<"/recruitment/1">>, T("Clerk"))),
      E("div", <<>>, A(<<>>, <<"/recruitment/1">>, T("Clerk"))),
      E("tr", <<>>, A(<<>>, <<"/a">>, T("Exam Notice"))),
      E("p", <<>>, A(<<>>, <<"/recruitment/2">>, T("PO"))),
      E("div", <<>>, A(<<>>, <<"/about">>, T("About"))) }

SelectPages ==
    BasePages \cup
    { Document(w \o Shift(Flatten(items), 1) \o t) :
        w \in SelectWrappers, t \in SelectTrailers,
        items \in SeqsUpTo(SelectListings, MaxListings) }

InitRun ==
    /\ pc = "request"
    /\ requests = <<>>
    /\ soup = <<>>
    /\ job_container = 0
    /\ job_elements = <<>>
    /\ link_scan = FALSE
    /\ all_links = <<>>
    /\ link_i = 1
    /\ raising = {}
    /\ elem_i = 1
    /\ job_info = <<>>
    /\ jobs = <<>>
    /\ csv_file = <<>>

\* the run as the script starts it (line 278; requests itself needs certifi,
\* so the import at line 17 succeeds), on the pages that exercise the filter
\* and the deduplication
Init ==
    /\ verify_ssl = TRUE
    /\ CERTIFI_AVAILABLE = TRUE
    /\ page \in PipelinePages
    /\ InitRun

Spec == Init /\ [][Next]_vars

\* every way of calling the fetcher
InitFetch ==
    /\ verify_ssl \in BOOLEAN
    /\ CERTIFI_AVAILABLE \in BOOLEAN
    /\ page \in BasePages
    /\ InitRun

SpecFetch == InitFetch /\ [][Next]_vars

\* the run on the pages that exercise extract_job_info
InitExtract ==
    /\ verify_ssl = TRUE
    /\ CERTIFI_AVAILABLE = TRUE
    /\ page \in ExtractPages
    /\ InitRun

SpecExtract == InitExtract /\ [][Next]_vars

\* the run on the pages that exercise the selector chains
InitSelect ==
    /\ verify_ssl = TRUE
    /\ CERTIFI_AVAILABLE = TRUE
    /\ page \in SelectPages
    /\ InitRun

SpecSelect == InitSelect /\ [][Next]_vars

---------------------------------------------------------------------------
(* Properties                                                              *)

\* the rows of the output file
Rows == IF csv_file = <<>> THEN <<>> ELSE csv_file[1]

\* whether the run has a document and has chosen its elements
Selected == soup # <<>> /\ pc \in {"links", "extract", "finish", "done"}

\* whether the last step was an extract_job_info call in which no library
\* call raised
Extracted ==
    soup # <<>> /\ elem_i > 1 /\ job_elements[elem_i - 1] \notin raising

\* the element of the last extract_job_info call
LastElem == job_elements[elem_i - 1]

HasExcludedPhrase(title) ==
    \E phrase \in exclude_keywords : Contains(Lower(title), phrase)

\* what extract_job_info gives for the k-th candidate element
InfoOf(k) ==
    extract_job_info(soup, job_elements[k], job_elements[k] \in raising)

\* C1: no row of the output has a lower-cased title that contains one of the
\* exclusion phrases.
C1_NoExcludedTitleInOutput ==
    \A k \in 1..Len(Rows) : ~HasExcludedPhrase(Rows[k].title)

\* C1 witness: the file is written in a run one of whose candidates had a
\* title with an exclusion phrase in capitals.
C1_Witness ==
    /\ pc = "done"
    /\ csv_file # <<>>
    /\ \E k \in 1..Len(job_elements) :
          /\ InfoOf(k) # <<>>
          /\ HasExcludedPhrase(InfoOf(k)[1].title)
          /\ InfoOf(k)[1].title # Lower(InfoOf(k)[1].title)

\* C2: no two rows of the output have the same title and the same link.
C2_NoDuplicateTitleLink ==
    \A i, j \in 1..Len(Rows) :
        (Rows[i].title = Rows[j].title /\ Rows[i].link = Rows[j].link)
            => i = j

\* C2 witness: the file is written from records two of which had the same
\* title and link and differed in another column.
C2_Witness ==
    /\ csv_file # <<>>
    /\ \E i, j \in 1..Len(jobs) :
          /\ i < j
          /\ jobs[i].title = jobs[j].title
          /\ jobs[i].link = jobs[j].link
          /\ jobs[i] # jobs[j]

\* the string get_text() gives: every string below e, as written
RawText(doc, e) ==
    LET idx == SortedSeq({j \in Descendants(doc, e) : ~IsTag(doc, j)})
        join[n \in 0..Len(idx)] ==
            IF n = 0 THEN "" ELSE join[n - 1] \o doc[idx[n]].string
    IN  join[Len(idx)]

\* the title tag by the priority chain of the claim: the first h4, else the
\* first h3, else the first h2, else the first a, else the first span whose
\* class matches title|heading|name; 0 when there is none
TitleTag(doc, e) ==
    LET below(S) == S \cap Descendants(doc, e)
        kinds == << below(Named(doc, "h4")), below(Named(doc, "h3")),
                    below(Named(doc, "h2")),
                    below(NamedClass(doc, "a", TitlePattern)),
                    below(NamedClass(doc, "span", TitlePattern)) >>
        present == {k \in 1..Len(kinds) : kinds[k] # {}}
    IN  IF present = {} THEN 0 ELSE Min(kinds[Min(present)])

FirstAnchor(doc, e) ==
    IF Named(doc, "a") \cap Descendants(doc, e) = {} THEN 0
    ELSE Min(Named(doc, "a") \cap Descendants(doc, e))

\* C3: the title is the trimmed text of the tag the priority chain chooses;
\* without such a tag it is the trimmed text of the first anchor; without
\* an anchor there is no record.
C3_TitleIsTrimmedTextOfChosenTag ==
    Extracted =>
        LET tag == TitleTag(soup, LastElem)
            anchor == FirstAnchor(soup, LastElem)
        IN  IF tag # 0
            THEN /\ job_info # <<>>
                 /\ job_info[1].title = Strip(RawText(soup, tag))
            ELSE IF anchor # 0
            THEN /\ job_info # <<>>
                 /\ job_info[1].title = Strip(RawText(soup, anchor))
            ELSE job_info = <<>>

\* The part of C3 that the code keeps: the tag is the one the priority chain
\* chooses, and the title is its strings, each trimmed, put together.
TitleIsStringsOfChosenTag ==
    Extracted =>
        LET tag == TitleTag(soup, LastElem)
            anchor == FirstAnchor(soup, LastElem)
        IN  IF tag # 0
            THEN /\ job_info # <<>>
                 /\ job_info[1].title = GetTextStrip(soup, tag)
            ELSE IF anchor # 0
            THEN /\ job_info # <<>>
                 /\ job_info[1].title = GetTextStrip(soup, anchor)
            ELSE job_info = <<>>

Letters ==
    {"a", "b", "c", "d", "e", "f", "g", "h", "i", "j", "k", "l", "m", "n",
     "o", "p", "q", "r", "s", "t", "u", "v", "w", "x", "y", "z"}

\* an absolute URL: a scheme of letters, then "://"
IsAbsoluteUrl(u) ==
    \E i \in 2..(Len(u) - 2) :
        /\ SubSeq(u, i, i + 2) = "://"
        /\ \A k \in 1..(i - 1) : Char(Lower(u), k) \in Letters

\* the base URL joined with a relative href
JoinBase(href) ==
    IF StartsWith(href, "/") THEN base_url \o href
    ELSE base_url \o "/" \o href

FirstHrefAnchor(doc, e) ==
    IF NamedHref(doc, "a") \cap Descendants(doc, e) = {} THEN 0
    ELSE Min(NamedHref(doc, "a") \cap Descendants(doc, e))

\* C4: the link of a record is 'Not available' when the element has no
\* anchor with an href; otherwise it is an absolute URL: the href itself
\* when that is absolute, the base URL joined with the href when not.
C4_LinkIsAbsoluteUrl ==
    (Extracted /\ job_info # <<>>) =>
        LET anchor == FirstHrefAnchor(soup, LastElem)
            href == soup[anchor].href[1]
            link == job_info[1].link
        IN  IF anchor = 0 THEN link = NotAvailable
            ELSE /\ IsAbsoluteUrl(link)
                 /\ IsAbsoluteUrl(href) => link = href
                 /\ ~IsAbsoluteUrl(href) => link = JoinBase(href)

\* whether the element has no location marker: no span and no div whose
\* class matches location|place|city, and no text matching the pattern
NoLocationMarker(doc, e) ==
    /\ NamedClass(doc, "span", LocationPattern) \cap Descendants(doc, e) = {}
    /\ NamedClass(doc, "div", LocationPattern) \cap Descendants(doc, e) = {}
    /\ TextAny(doc, LocationText) \cap Descendants(doc, e) = {}

\* the trimmed text of the first location marker: the first span, else the
\* first div, else the first text
LocationMarkerText(doc, e) ==
    LET spans == NamedClass(doc, "span", LocationPattern)
                     \cap Descendants(doc, e)
        divs == NamedClass(doc, "div", LocationPattern)
                     \cap Descendants(doc, e)
        texts == TextAny(doc, LocationText) \cap Descendants(doc, e)
    IN  IF spans # {} THEN GetTextStrip(doc, Min(spans))
        ELSE IF divs # {} THEN GetTextStrip(doc, Min(divs))
        ELSE Strip(doc[Min(texts)].string)

\* C5 as stated: the Location of a record is "Not specified" exactly when
\* the element has no location marker.
C5_NotSpecifiedIffNoMarker ==
    (Extracted /\ job_info # <<>>) =>
        (job_info[1].location = NotSpecified
            <=> NoLocationMarker(soup, LastElem))

\* C5 as amended: an element without location marker gives the Location
\* "Not specified", and a Location "Not specified" comes from an element
\* without marker or from a first marker whose own text is "Not specified".
C5_NotSpecifiedWithoutMarker ==
    (Extracted /\ job_info # <<>>) =>
        /\ NoLocationMarker(soup, LastElem)
              => job_info[1].location = NotSpecified
        /\ job_info[1].location = NotSpecified
              => \/ NoLocationMarker(soup, LastElem)
                 \/ LocationMarkerText(soup, LastElem) = NotSpecified

\* C5 witness: a record from an element without location marker.
C5_Witness ==
    /\ Extracted
    /\ job_info # <<>>
    /\ NoLocationMarker(soup, LastElem)
    /\ job_info[1].location = NotSpecified

\* C6: at most two requests; a second one only after an SSLError of the
\* first with verify_ssl true, and then with verification off; every other
\* failure of the first request, and every failure of the second, ends in
\* None.
C6_RetryOnceOnCertificateError ==
    /\ Len(requests) <= 2
    /\ Len(requests) = 2 =>
          /\ requests[1].outcome = "SSLError"
          /\ verify_ssl
          /\ requests[2].verify = "False"
    /\ pc \notin {"request", "retry"} =>
          /\ (requests[1].outcome = "RequestException"
                 \/ (requests[1].outcome = "SSLError" /\ ~verify_ssl))
                => (soup = <<>> /\ Len(requests) = 1)
          /\ (Len(requests) = 2 /\ requests[2].outcome # "ok")
                => soup = <<>>

\* C6 witness: a run ended after the retry failed.
C6_Witness ==
    /\ pc = "done"
    /\ Len(requests) = 2
    /\ requests[2].outcome = "SSLError"
    /\ soup = <<>>

\* C7: the file is written only in a run that fetched a page and kept at
\* least one record, and then has at least one row; a run that ends after a
\* failed fetch or with no record kept leaves the file as it was.
C7_FileWrittenOnlyWithRecords ==
    /\ csv_file # <<>> =>
          /\ soup # <<>>
          /\ jobs # <<>>
          /\ Len(csv_file[1]) >= 1
    /\ (pc = "done" /\ (soup = <<>> \/ jobs = <<>>)) => csv_file = <<>>

\* C7 witness: a run that had candidate elements and kept none of them has
\* ended.
C7_Witness ==
    /\ pc = "done"
    /\ soup # <<>>
    /\ job_elements # <<>>
    /\ jobs = <<>>
    /\ csv_file = <<>>

\* the candidates among the first n that yield a record
Survivors(n) ==
    LET yields(e) == extract_job_info(soup, e, e \in raising) # <<>>
    IN  SelectSeq(SubSeq(job_elements, 1, n), yields)

RECURSIVE KeptRecords(_)
\* the records a batch of just these elements keeps
KeptRecords(elements) ==
    IF elements = <<>> THEN <<>>
    ELSE LET init == KeptRecords(SubSeq(elements, 1, Len(elements) - 1))
             info == extract_job_info(soup, elements[Len(elements)], FALSE)
         IN  IF KeepJob(info) THEN Append(init, info[1]) ELSE init

\* C8: every candidate is processed, and the records kept and the rows
\* written are those of a batch without the elements whose extraction raised
\* or gave no record.
C8_FailureIsLocal ==
    /\ (soup # <<>> /\ pc = "extract") =>
          jobs = KeptRecords(Survivors(elem_i - 1))
    /\ (soup # <<>> /\ pc \in {"finish", "done"}) =>
          LET kept == KeptRecords(Survivors(Len(job_elements)))
          IN  /\ elem_i = Len(job_elements) + 1
              /\ jobs = kept
              /\ csv_file # <<>> => Rows = DropDuplicates(kept)

\* C8 witness: the file is written in a run where an element raised and a
\* later element gave a record that was kept.
C8_Witness ==
    /\ pc = "done"
    /\ csv_file # <<>>
    /\ \E k, m \in 1..Len(job_elements) :
          /\ k < m
          /\ job_elements[k] \in raising
          /\ KeepJob(InfoOf(m))

\* C9: every row of the output has a title that is not empty and has fewer
\* than 100 characters.
C9_TitleLengthInOutput ==
    \A k \in 1..Len(Rows) :
        Rows[k].title # "" /\ Len(Rows[k].title) < MaxTitleLen

\* C9 witness: the file is written in a run one of whose candidates had a
\* title of exactly 100 characters.
C9_Witness ==
    /\ pc = "done"
    /\ csv_file # <<>>
    /\ \E k \in 1..Len(job_elements) :
          InfoOf(k) # <<>> /\ Len(InfoOf(k)[1].title) = MaxTitleLen

\* C10: the container is the result of the first container matcher that
\* finds a tag, the document when none does; the elements are the result of
\* the first listing matcher that finds any, and then the links are not
\* scanned; when no matcher finds any, every element is the nearest
\* div/li/article/tr ancestor of a scanned link with a keyword, and none
\* is listed twice.
C10_FirstMatchWins ==
    Selected =>
        LET containers == possible_containers(soup)
            selectors == job_selectors(soup, job_container)
            scanned == IF pc = "links" THEN link_i - 1 ELSE Len(all_links)
        IN  /\ \/ /\ \A k \in 1..Len(containers) : containers[k] = 0
                  /\ job_container = 1
               \/ \E k \in 1..Len(containers) :
                     /\ containers[k] # 0
                     /\ \A m \in 1..(k - 1) : containers[m] = 0
                     /\ job_container = containers[k]
            /\ \/ \E k \in 1..Len(selectors) :
                     /\ selectors[k] # <<>>
                     /\ \A m \in 1..(k - 1) : selectors[m] = <<>>
                     /\ job_elements = selectors[k]
                     /\ ~link_scan
               \/ /\ \A k \in 1..Len(selectors) : selectors[k] = <<>>
                  /\ link_scan
                  /\ \A n \in 1..Len(job_elements) :
                        \E k \in 1..scanned :
                           /\ LinkHasKeyword(soup, all_links[k])
                           /\ job_elements[n] =
                                 FindParent(soup, all_links[k], ParentNames)
                  /\ \A n, m \in 1..Len(job_elements) :
                        job_elements[n] = job_elements[m] => n = m

\* C10 witness: a run with a container found by a later matcher than the
\* first, in which two listing matchers found different elements.
C10_Witness ==
    /\ pc = "done"
    /\ soup # <<>>
    /\ possible_containers(soup)[1] = 0
    /\ job_container # 1
    /\ \E k, m \in 1..Len(job_selectors(soup, job_container)) :
          /\ k < m
          /\ job_selectors(soup, job_container)[k] # <<>>
          /\ job_selectors(soup, job_container)[m] # <<>>
          /\ job_selectors(soup, job_container)[k]
                # job_selectors(soup, job_container)[m]

=============================================================================
